---- MODULE Spec2Model ----
(***************************************************************************)
(* Random-restart hill climbing for the N-queens problem, after            *)
(* eight-queen.py.  A board is a function from columns 0..n-1 to rows; the *)
(* source fixes n = 8, the model is parametric in the board size.          *)
(***************************************************************************)
EXTENDS Integers, FiniteSets, Sequences

\* Board size: the literal 8 of randomEightQueensBoard and
\* getFirstChoiceSuccessor (rows are drawn by randint(0, 7)).
BoardSize == 4

\* maxRestart of hillClimbing (500 in the source).
maxRestart == 3

\* maxGeneration of getFirstChoiceSuccessor (100 in the source).
maxGeneration == 3

\* The "worse than anything" sentinel of hillClimbing and getBestSuccessor.
Sentinel == 999

\* Python's None.
None == << >>

Cols == 0 .. (BoardSize - 1)

\* The values random.randint(0, 7) can return.
RandInt == 0 .. (BoardSize - 1)

\* All boards of BoardSize values, each a possible randint draw.
Boards == [Cols -> RandInt]

VARIABLES
    pc,             \* position of the running function
    func,           \* getSuccessorFunc: "best" or "first"
    restart,        \* iterations of hillClimbing's for loop started so far
    board,          \* randomEightQueensBoard: board
    i,              \* randomEightQueensBoard: i
    row,            \* randomEightQueensBoard: row
    current,        \* hillClimbing: current
    currentAttacks, \* hillClimbing: currentAttacks
    bestState,      \* hillClimbing: bestState
    bestAttacks,    \* hillClimbing: bestAttacks
    minFinal,       \* history: least currentAttacks at the end of an iteration so far
    input,          \* argument of the function under evaluation
    order,          \* order in which the queens of input are presented
    gen,            \* getFirstChoiceSuccessor: i, the candidates generated so far
    discarded,      \* history: conflict counts of the candidates passed over
    result          \* value returned by the function under evaluation

vars == << pc, func, restart, board, i, row, current, currentAttacks,
           bestState, bestAttacks, minFinal, input, order, gen, discarded, result >>

----------------------------------------------------------------------------
\* Pure functions

abs(x) == IF x < 0 THEN -x ELSE x

len(b) == Cardinality(DOMAIN b)

\* isDiagonal without the absolute values: one diagonal direction only.
isDiagonalOneWay(p1, p2) == p1[1] - p2[1] = p1[2] - p2[2]

\* p1, p2 are <<row, column>> points.
isDiagonal(p1, p2) ==
    LET x1 == p1[1]
        y1 == p1[2]
        x2 == p2[1]
        y2 == p2[2]
        h_dist == abs(x1 - x2)
        v_dist == abs(y1 - y2)
    IN  h_dist = v_dist

\* The points (q, i) met by "for i, q in enumerate(board)", in that order.
enumerate(b) == [k \in 1 .. len(b) |-> << b[k - 1], k - 1 >>]

\* The double loop of calcAttacks over a sequence of points: step k visits
\* the a-th point in the outer loop and the o-th in the inner loop.
RECURSIVE attackLoop(_, _, _)
attackLoop(points, k, attackPairs) ==
    LET n == Len(points)
    IN  IF k = n * n
        THEN attackPairs
        ELSE LET p == points[(k \div n) + 1]
                 other == points[(k % n) + 1]
                 pair == << p, other >>
             IN  attackLoop(points, k + 1,
                    IF /\ p[2] # other[2]
                       /\ (p[1] = other[1] \/ isDiagonal(p, other))
                       /\ << other, p >> \notin attackPairs
                    THEN attackPairs \cup {pair}
                    ELSE attackPairs)

calcAttacks(b) == Cardinality(attackLoop(enumerate(b), 0, {}))

\* calcAttacks on every board.  TLC evaluates a function constructor anew at
\* each application until the function has been compared; the tables of this
\* module are compared once, so that a call is evaluated once per board.
attacksOf ==
    LET t == [b \in Boards |-> calcAttacks(b)]
    IN  IF t = t THEN t ELSE t

\* presented with the position in the presentation taken for the column.
presentedByPosition(b, p) == [k \in 1 .. len(b) |-> << enumerate(b)[p[k]][1], k - 1 >>]

\* The same loop with the queens presented in the order p (a permutation of
\* 1..n), each queen keeping its own row and column.
presented(b, p) ==
    LET points == enumerate(b)
    IN  [k \in 1 .. Len(points) |-> points[p[k]]]

calcAttacksInOrder(b, p) == Cardinality(attackLoop(presented(b, p), 0, {}))

\* current_state[:col] + [row] + current_state[col+1:]
withRow(b, col, r) == [c \in DOMAIN b |-> IF c = col THEN r ELSE b[c]]

\* bestLoop with ">=" for ">": the last candidate of the least count wins.
RECURSIVE bestLoopLast(_, _, _)
bestLoopLast(current_state, k, best) ==
    LET n == len(current_state)
    IN  IF k = n * n
        THEN best
        ELSE LET col == k \div n
                 r == k % n
                 succ == withRow(current_state, col, r)
             IN  bestLoopLast(current_state, k + 1,
                    IF r # current_state[col] /\ best[2] >= attacksOf[succ]
                    THEN << succ, attacksOf[succ] >>
                    ELSE best)

\* The nested loops of getBestSuccessor: step k looks at column k \div n and
\* row k % n; best is << bestState, bestAttacks >>.
RECURSIVE bestLoop(_, _, _)
bestLoop(current_state, k, best) ==
    LET n == len(current_state)
    IN  IF k = n * n
        THEN best
        ELSE LET col == k \div n
                 r == k % n
             IN  IF r # current_state[col]
                 THEN LET succ == withRow(current_state, col, r)
                          successorAttacks == attacksOf[succ]
                      IN  bestLoop(current_state, k + 1,
                              IF best[2] > successorAttacks
                              THEN << succ, successorAttacks >>
                              ELSE best)
                 ELSE bestLoop(current_state, k + 1, best)

\* getBestSuccessor returning the count of the last candidate it looked at
\* with the best state.
getBestSuccessorLastCount(current_state) ==
    LET n == len(current_state)
        lastRow == IF current_state[n - 1] = n - 1 THEN n - 2 ELSE n - 1
    IN  << bestLoop(current_state, 0, << None, Sentinel >>)[1],
           attacksOf[withRow(current_state, n - 1, lastRow)] >>

getBestSuccessor(current_state) == bestLoop(current_state, 0, << None, Sentinel >>)

\* isBetter with "<=" for "<".
isBetterOrEqual(successorAttacks, attacks) == successorAttacks <= attacks \/ successorAttacks = 0

\* The test of getFirstChoiceSuccessor on one generated candidate.
isBetter(successorAttacks, attacks) == successorAttacks < attacks \/ successorAttacks = 0

\* "x in b" looking at the first entry only.
containsFirst(b, x) == b[0] = x

\* Python's "x in b" on a list.
contains(b, x) == \E c \in DOMAIN b : b[c] = x

\* [-1] * 8
blank == [c \in Cols |-> -1]

\* The boards randomEightQueensBoard can return when columns k.. of b are
\* still to be filled: column k takes any draw that is not yet in b.
RECURSIVE fillFrom(_, _)
fillFrom(b, k) ==
    IF k = BoardSize
    THEN {b}
    ELSE UNION {fillFrom([b EXCEPT ![k] = r], k + 1) :
                    r \in {x \in RandInt : ~contains(b, x)}}

randomEightQueensBoard ==
    LET t == fillFrom(blank, 0)
    IN  IF t = t THEN t ELSE t

\* The candidates getFirstChoiceSuccessor can draw, by the count they are
\* tested against: those that pass the test, each with its own count, and
\* whether any fails it.
drawnAgainst ==
    LET t == [attacks \in {attacksOf[b] : b \in Boards} |->
                [better |-> {<< s, attacksOf[s] >> :
                                s \in {c \in Boards : isBetter(attacksOf[c], attacks)}},
                 worse |-> \E c \in Boards : ~isBetter(attacksOf[c], attacks)]]
    IN  IF t = t THEN t ELSE t

\* The values getFirstChoiceSuccessor can return after k candidates were
\* passed over: a candidate that passes the test, or, when the loop runs out,
\* the state it was given with that state's count.
RECURSIVE firstChoiceFrom(_, _, _)
firstChoiceFrom(current_state, currentAttacks_, k) ==
    IF k = maxGeneration
    THEN {<< current_state, currentAttacks_ >>}
    ELSE drawnAgainst[currentAttacks_].better
            \cup (IF drawnAgainst[currentAttacks_].worse
                  THEN firstChoiceFrom(current_state, currentAttacks_, k + 1)
                  ELSE {})

getFirstChoiceSuccessor(current_state) ==
    firstChoiceFrom(current_state, attacksOf[current_state], 0)

\* getBestSuccessor on every board.
bestSuccessorOf ==
    LET t == [b \in Boards |-> getBestSuccessor(b)]
    IN  IF t = t THEN t ELSE t

getSuccessorFunc(f, current_state) ==
    IF f = "best"
    THEN {bestSuccessorOf[current_state]}
    ELSE getFirstChoiceSuccessor(current_state)

\* accepts with "<=" for "<".
acceptsEqual(successorAttacks, attacks) == successorAttacks <= attacks

\* hillClimbing: "if (successorAttacks < currentAttacks)".
accepts(successorAttacks, attacks) == successorAttacks < attacks

\* improves with the comparison turned round.
improvesReversed(attacks, best) == attacks > best \/ attacks = 0

\* hillClimbing: "if (currentAttacks < bestAttacks or currentAttacks == 0)".
improves(attacks, best) == attacks < best \/ attacks = 0

\* solved that never holds: the break is never taken.
solvedNever(attacks) == attacks < 0

\* hillClimbing: "if currentAttacks == 0: break" after the best-seen update.
solved(attacks) == attacks = 0

\* The orders in which BoardSize queens can be presented.
Orders ==
    {p \in [1 .. BoardSize -> 1 .. BoardSize] :
        \A a, b \in 1 .. BoardSize : a # b => p[a] # p[b]}

----------------------------------------------------------------------------
\* Evaluation of the board functions on every board

CalcInit ==
    /\ pc = "call"
    /\ input \in Boards
    /\ order = None
    /\ func = "none"
    /\ restart = 0
    /\ board = None
    /\ i = 0
    /\ row = -1
    /\ current = None
    /\ currentAttacks = -1
    /\ bestState = None
    /\ bestAttacks = Sentinel
    /\ minFinal = Sentinel
    /\ gen = 0
    /\ discarded = {}
    /\ result = None

CallCalcAttacks ==
    /\ pc = "call"
    /\ result' = calcAttacks(input)
    /\ pc' = "calcAttacks"
    /\ UNCHANGED << func, restart, board, i, row, current, currentAttacks,
                    bestState, bestAttacks, minFinal, input, order, gen, discarded >>

CallCalcAttacksInOrder ==
    /\ pc = "call"
    /\ \E p \in Orders :
          /\ order' = p
          /\ result' = calcAttacksInOrder(input, p)
    /\ pc' = "calcAttacksInOrder"
    /\ UNCHANGED << func, restart, board, i, row, current, currentAttacks,
                    bestState, bestAttacks, minFinal, input, gen, discarded >>

CallGetBestSuccessor ==
    /\ pc = "call"
    /\ result' = getBestSuccessor(input)
    /\ pc' = "getBestSuccessor"
    /\ UNCHANGED << func, restart, board, i, row, current, currentAttacks,
                    bestState, bestAttacks, minFinal, input, order, gen, discarded >>

CalcNext == CallCalcAttacks \/ CallGetBestSuccessor

CalcSpec == CalcInit /\ [][CalcNext]_vars

\* calcAttacks with the queens of every board presented in every order.
OrderNext == CallCalcAttacksInOrder

OrderSpec == CalcInit /\ [][OrderNext]_vars

----------------------------------------------------------------------------
\* randomEightQueensBoard, one draw at a time

RandomInit ==
    /\ pc = "rand_for"
    /\ board = blank
    /\ i = 0
    /\ row = -1
    /\ input = None
    /\ order = None
    /\ func = "none"
    /\ restart = 0
    /\ current = None
    /\ currentAttacks = -1
    /\ bestState = None
    /\ bestAttacks = Sentinel
    /\ minFinal = Sentinel
    /\ gen = 0
    /\ discarded = {}
    /\ result = None

\* row = random.randint(0, 7)
Draw ==
    /\ pc = "rand_for"
    /\ i < BoardSize
    /\ row' \in RandInt
    /\ pc' = "rand_while"
    /\ UNCHANGED << func, restart, board, i, current, currentAttacks, bestState,
                    bestAttacks, minFinal, input, order, gen, discarded, result >>

\* while (row in board): row = random.randint(0, 7)
Redraw ==
    /\ pc = "rand_while"
    /\ contains(board, row)
    /\ row' \in RandInt
    /\ UNCHANGED << pc, func, restart, board, i, current, currentAttacks, bestState,
                    bestAttacks, minFinal, input, order, gen, discarded, result >>

\* A redraw that ends the while loop.
RedrawFresh ==
    /\ Redraw
    /\ ~contains(board, row')

\* board[i] = row
Place ==
    /\ pc = "rand_while"
    /\ ~contains(board, row)
    /\ board' = [board EXCEPT ![i] = row]
    /\ i' = i + 1
    /\ pc' = "rand_for"
    /\ UNCHANGED << func, restart, row, current, currentAttacks, bestState,
                    bestAttacks, minFinal, input, order, gen, discarded, result >>

\* return board
ReturnBoard ==
    /\ pc = "rand_for"
    /\ i = BoardSize
    /\ result' = board
    /\ pc' = "rand_returned"
    /\ UNCHANGED << func, restart, board, i, row, current, currentAttacks, bestState,
                    bestAttacks, minFinal, input, order, gen, discarded >>

RandomNext == Draw \/ Redraw \/ Place \/ ReturnBoard

RandomSpec == RandomInit /\ [][RandomNext]_vars

----------------------------------------------------------------------------
\* getFirstChoiceSuccessor, one candidate at a time, every column drawn afresh

FirstInit ==
    /\ pc = "first_call"
    /\ input \in Boards
    /\ gen = 0
    /\ discarded = {}
    /\ result = None
    /\ order = None
    /\ func = "none"
    /\ restart = 0
    /\ board = None
    /\ i = 0
    /\ row = -1
    /\ current = None
    /\ currentAttacks = -1
    /\ bestState = None
    /\ bestAttacks = Sentinel
    /\ minFinal = Sentinel

\* currentAttacks = calcAttacks(current_state)
EnterFirstChoice ==
    /\ pc = "first_call"
    /\ currentAttacks' = attacksOf[input]
    /\ pc' = "generate"
    /\ UNCHANGED << func, restart, board, i, row, current, bestState, bestAttacks,
                    minFinal, input, order, gen, discarded, result >>

\* One turn of "for i in range(maxGeneration)": draw a candidate, return it
\* when it is better, pass it over otherwise.
Generate ==
    /\ pc = "generate"
    /\ gen < maxGeneration
    /\ \E successor \in Boards :
          LET successorAttacks == attacksOf[successor]
          IN  IF isBetter(successorAttacks, currentAttacks)
              THEN /\ result' = << successor, successorAttacks >>
                   /\ pc' = "first_returned"
                   /\ UNCHANGED discarded
              ELSE /\ discarded' = discarded \cup {successorAttacks}
                   /\ UNCHANGED << pc, result >>
    /\ gen' = gen + 1
    /\ UNCHANGED << func, restart, board, i, row, current, currentAttacks, bestState,
                    bestAttacks, minFinal, input, order >>

\* return current_state, currentAttacks
ReturnCurrent ==
    /\ pc = "generate"
    /\ gen = maxGeneration
    /\ result' = << input, currentAttacks >>
    /\ pc' = "first_returned"
    /\ UNCHANGED << func, restart, board, i, row, current, currentAttacks, bestState,
                    bestAttacks, minFinal, input, order, gen, discarded >>

FirstNext == EnterFirstChoice \/ Generate \/ ReturnCurrent

FirstSpec == FirstInit /\ [][FirstNext]_vars

----------------------------------------------------------------------------
\* hillClimbing

Min(a, b) == IF a < b THEN a ELSE b

HillInit ==
    /\ pc = "hill_for"
    /\ func \in {"best", "first"}
    /\ restart = 0
    /\ current = None
    /\ currentAttacks = -1
    /\ bestState = None
    /\ bestAttacks = Sentinel
    /\ minFinal = Sentinel
    /\ board = None
    /\ i = 0
    /\ row = -1
    /\ input = None
    /\ order = None
    /\ gen = 0
    /\ discarded = {}
    /\ result = None

\* for _ in range(maxRestart): current = randomEightQueensBoard() ...
ForRestart ==
    /\ pc = "hill_for"
    /\ restart < maxRestart
    /\ restart' = restart + 1
    /\ \E b \in randomEightQueensBoard :
          /\ current' = b
          /\ currentAttacks' = attacksOf[b]
    /\ pc' = "search"
    /\ UNCHANGED << func, board, i, row, bestState, bestAttacks, minFinal,
                    input, order, gen, discarded, result >>

\* One turn of "while (currentAttacks > 0)".
SearchStep ==
    /\ pc = "search"
    /\ currentAttacks > 0
    /\ \E out \in getSuccessorFunc(func, current) :
          LET successorState == out[1]
              successorAttacks == out[2]
          IN  IF accepts(successorAttacks, currentAttacks)
              THEN /\ current' = successorState
                   /\ currentAttacks' = successorAttacks
                   /\ pc' = IF successorAttacks = 0 THEN "compare" ELSE "search"
              ELSE /\ pc' = "compare"
                   /\ UNCHANGED << current, currentAttacks >>
    /\ UNCHANGED << func, restart, board, i, row, bestState, bestAttacks, minFinal,
                    input, order, gen, discarded, result >>

\* The while condition fails on entry.
SearchExit ==
    /\ pc = "search"
    /\ ~(currentAttacks > 0)
    /\ pc' = "compare"
    /\ UNCHANGED << func, restart, board, i, row, current, currentAttacks, bestState,
                    bestAttacks, minFinal, input, order, gen, discarded, result >>

\* The best-seen update at the end of an iteration, with its break and the
\* return that follows it.
Compare ==
    /\ pc = "compare"
    /\ minFinal' = Min(minFinal, currentAttacks)
    /\ IF improves(currentAttacks, bestAttacks)
       THEN /\ bestAttacks' = currentAttacks
            /\ bestState' = current
            /\ IF solved(currentAttacks)
               THEN /\ pc' = "done"
                    /\ result' = << bestState', bestAttacks' >>
               ELSE /\ pc' = "hill_for"
                    /\ UNCHANGED result
       ELSE /\ pc' = "hill_for"
            /\ UNCHANGED << bestState, bestAttacks, result >>
    /\ UNCHANGED << func, restart, board, i, row, current, currentAttacks,
                    input, order, gen, discarded >>

\* The for loop runs out: return bestState, bestAttacks.
ForExhausted ==
    /\ pc = "hill_for"
    /\ ~(restart < maxRestart)
    /\ result' = << bestState, bestAttacks >>
    /\ pc' = "done"
    /\ UNCHANGED << func, restart, board, i, row, current, currentAttacks, bestState,
                    bestAttacks, minFinal, input, order, gen, discarded >>

HillNext == ForRestart \/ SearchStep \/ SearchExit \/ Compare \/ ForExhausted

HillSpec == HillInit /\ [][HillNext]_vars

----------------------------------------------------------------------------
\* Termination: hillClimbing with its calls taken as single steps, and the
\* retry loop of randomEightQueensBoard one draw at a time.  The interpreter
\* keeps running randomEightQueensBoard, and a fair random source does not
\* avoid the free rows for ever.

LiveInit == HillInit \/ RandomInit

LiveNext == HillNext \/ RandomNext

LiveSpec ==
    /\ LiveInit
    /\ [][LiveNext]_vars
    /\ WF_vars(RandomNext)
    /\ SF_vars(RedrawFresh)

----------------------------------------------------------------------------
\* Properties of the board functions

\* Two queens of b, in columns a < c, that share a row or a diagonal.
Attacking(b, a, c) == b[a] = b[c] \/ abs(b[a] - b[c]) = abs(a - c)

AttackingPairs(b) == {pr \in Cols \X Cols : pr[1] < pr[2] /\ Attacking(b, pr[1], pr[2])}

\* C1: calcAttacks(board) is the number of unordered pairs of distinct columns
\* whose queens share a row or a diagonal, each pair counted once; the board
\* with all queens in one row gives every pair.
C1_CountsUnorderedPairs ==
    pc = "calcAttacks" =>
        /\ result = Cardinality(AttackingPairs(input))
        /\ (\A a, c \in Cols : input[a] = input[c])
              => result = (BoardSize * (BoardSize - 1)) \div 2
        /\ result = 0 <=> \A a, c \in Cols : a < c => ~Attacking(input, a, c)

C1_Witness ==
    /\ pc = "calcAttacks"
    /\ \A a, c \in Cols : input[a] = input[c]
    /\ result = (BoardSize * (BoardSize - 1)) \div 2

Neighbours(b) == {[b EXCEPT ![c] = r] : << c, r >> \in {m \in Cols \X RandInt : m[2] # b[m[1]]}}

\* Position of a neighbour in the enumeration by column, then by new row.
MoveKey(b, s) ==
    LET col == CHOOSE c \in Cols : s[c] # b[c]
    IN  col * BoardSize + s[col]

MinAttacks(S) == CHOOSE m \in {attacksOf[s] : s \in S} : \A s \in S : m <= attacksOf[s]

\* C3: getBestSuccessor returns the least conflict count over the boards that
\* differ from the input in exactly one column, with the first board of that
\* count in column-then-row order; never None, never the sentinel.
C3_BestSuccessorIsFirstMinimum ==
    pc = "getBestSuccessor" =>
        LET nb == Neighbours(input)
            m == MinAttacks(nb)
            s == result[1]
        IN  /\ Cardinality(nb) = BoardSize * (BoardSize - 1)
            /\ result[2] = m
            /\ s \in nb
            /\ attacksOf[s] = m
            /\ \A t \in nb : attacksOf[t] = m => MoveKey(input, s) <= MoveKey(input, t)
            /\ s # None
            /\ result[2] # Sentinel

C3_Witness ==
    /\ pc = "getBestSuccessor"
    /\ Cardinality({t \in Neighbours(input) : attacksOf[t] = result[2]}) > 1
    /\ result[2] > 0
    /\ result[2] < attacksOf[input]

----------------------------------------------------------------------------
\* Properties of randomEightQueensBoard

\* C2: every board randomEightQueensBoard returns is a permutation of the
\* rows: one entry per column, each a row of the board, none repeated, the
\* -1 placeholder gone.
C2_ReturnsPermutation ==
    pc = "rand_returned" =>
        /\ DOMAIN result = Cols
        /\ Cardinality(DOMAIN result) = BoardSize
        /\ \A c \in Cols : result[c] \in 0 .. (BoardSize - 1)
        /\ \A a, c \in Cols : a # c => result[a] # result[c]
        /\ Cardinality({result[c] : c \in Cols}) = BoardSize

C2_Witness ==
    /\ pc = "rand_returned"
    /\ result[0] = BoardSize - 1
    /\ result[BoardSize - 1] = 0
    /\ \A a, c \in Cols : a # c => result[a] # result[c]

\* The boards reached one draw at a time are those the search starts from.
RandomAgrees == pc = "rand_returned" => result \in randomEightQueensBoard

----------------------------------------------------------------------------
\* Properties of getFirstChoiceSuccessor

\* C6: getFirstChoiceSuccessor generates at most maxGeneration candidates;
\* every candidate it passes over is neither strictly below the count of the
\* input nor zero, so the candidate it returns is the first that is; a
\* returned candidate comes with its own count; when all candidates were
\* passed over it returns the input with the input's count; the returned
\* count is never above the input's.
C6_FirstChoiceContract ==
    LET inputAttacks == attacksOf[input]
    IN  /\ gen <= maxGeneration
        /\ \A n \in discarded : ~(n < inputAttacks \/ n = 0)
        /\ pc = "first_returned" =>
              /\ result[2] <= inputAttacks
              /\ result[1] \in Boards
              /\ result[2] = attacksOf[result[1]]
              /\ \/ /\ result[2] < inputAttacks \/ result[2] = 0
                    /\ gen >= 1
                 \/ /\ result = << input, inputAttacks >>
                    /\ gen = maxGeneration
                    /\ discarded # {}
              /\ ~(result[2] < inputAttacks \/ result[2] = 0) => result[1] = input

C6_Witness ==
    /\ pc = "first_returned"
    /\ gen = maxGeneration
    /\ discarded # {}
    /\ result[1] # input
    /\ result[2] > 0
    /\ result[2] < attacksOf[input]

C6_FallbackWitness ==
    /\ pc = "first_returned"
    /\ result = << input, attacksOf[input] >>
    /\ result[2] > 0
    /\ Cardinality(discarded) = maxGeneration

----------------------------------------------------------------------------
\* Properties of hillClimbing

Iterated == pc \in {"hill_for", "done"} /\ restart > 0

\* C4: the best-seen count never increases; after every completed iteration
\* it is the least final count of the iterations so far; the returned count
\* is that least count and belongs to the returned state.
C4_BestSeenIsRunningMinimum ==
    /\ [](Iterated =>
              bestAttacks = minFinal /\ bestState \in Boards /\ attacksOf[bestState] = minFinal)
    /\ [](pc = "done" /\ restart > 0 =>
              result[2] = minFinal /\ result[1] \in Boards /\ attacksOf[result[1]] = result[2])
    /\ [][bestAttacks' <= bestAttacks]_vars

C4_Witness ==
    /\ pc = "hill_for"
    /\ restart = maxRestart
    /\ currentAttacks > bestAttacks
    /\ bestAttacks > 0
    /\ bestState # current

HillPcs == {"hill_for", "search", "compare", "done"}

\* What is left of a run of hillClimbing: the restarts to come, then the
\* position in the iteration, then the count the local search still has to
\* bring down.
RankBase == ((BoardSize * (BoardSize - 1)) \div 2) + 3

Rank ==
    IF pc = "done"
    THEN 0
    ELSE (maxRestart - restart) * RankBase
            + (IF pc = "hill_for" THEN 1
               ELSE IF pc = "compare" THEN 2
               ELSE 3 + currentAttacks)

\* C5: hillClimbing returns with either generator: every step brings the
\* rank down and the rank stays at or above 0, so a run has finitely many
\* steps, and a step is possible until the return; an accepted successor
\* lowers the count, which stays at or above 0; the restart loop runs at most
\* maxRestart times; under fair draws the retry loop of
\* randomEightQueensBoard ends and the board is returned.
C5_Terminates ==
    /\ [][(pc \in HillPcs) => (Rank' < Rank)]_vars
    /\ [](pc \in HillPcs => Rank >= 0)
    /\ [](pc \in HillPcs \ {"done"} => ENABLED HillNext)
    /\ [][pc = "search" /\ pc' = "search" =>
              currentAttacks' < currentAttacks /\ currentAttacks' >= 0]_vars
    /\ [](restart <= maxRestart)
    /\ (pc \in {"rand_for", "rand_while"}) ~> (pc = "rand_returned")

C5_Witness ==
    /\ pc = "done"
    /\ func = "first"
    /\ restart = maxRestart
    /\ result[2] > 0

C5_RetryWitness ==
    /\ pc = "rand_while"
    /\ i = BoardSize - 1
    /\ contains(board, row)

\* C7: at most maxRestart iterations are performed and none is started once
\* an iteration ended with count 0; a return before maxRestart iterations
\* carries count 0, and a return with a positive count comes after exactly
\* maxRestart iterations none of which ended with count 0.
C7_RestartBoundAndEarlyExit ==
    /\ [](restart <= maxRestart)
    /\ [][minFinal = 0 => restart' = restart]_vars
    /\ [](pc = "done" =>
              /\ restart < maxRestart => result[2] = 0
              /\ result[2] > 0 => restart = maxRestart /\ minFinal > 0)

C7_Witness ==
    /\ pc = "done"
    /\ restart >= 1
    /\ restart < maxRestart
    /\ result[2] = 0

C7_ExhaustedWitness ==
    /\ pc = "done"
    /\ restart = maxRestart
    /\ result[2] > 0

\* C9: within an iteration nothing is generated once the count is 0; the
\* current state is replaced only by a state of strictly lower count; the
\* loop that ends above count 0 leaves the current state and count as they
\* were; with getBestSuccessor an iteration ends at count 0 or at a state
\* none of whose single-queen moves has a strictly lower count.
C9_AcceptOnlyStrictlyLower ==
    /\ [][pc = "search" =>
              /\ attacksOf[current] = 0 => current' = current /\ pc' = "compare"
              /\ current' # current => attacksOf[current'] < attacksOf[current]
              /\ pc' = "compare" /\ attacksOf[current'] > 0 =>
                    current' = current /\ currentAttacks' = currentAttacks]_vars
    /\ [](pc = "compare" /\ func = "best" =>
              \/ attacksOf[current] = 0
              \/ \A t \in Neighbours(current) : attacksOf[t] >= attacksOf[current])

C9_Witness ==
    /\ pc = "compare"
    /\ func = "best"
    /\ currentAttacks > 0
    /\ \A t \in Neighbours(current) : attacksOf[t] >= currentAttacks

C9_AcceptedWitness ==
    /\ pc = "search"
    /\ func = "best"
    /\ currentAttacks > 0
    /\ current \notin randomEightQueensBoard

\* C10: the recorded counts are the counts of the recorded boards: of current
\* whenever a generator is called or the best-seen record is compared, and
\* of the returned state, which is a board, with a count from 0 up to the
\* number of pairs and never the sentinel; with both generators.
C10_CountsAgreeWithBoards ==
    /\ pc \in {"search", "compare"} => currentAttacks = attacksOf[current]
    /\ pc = "done" =>
          /\ result = << bestState, bestAttacks >>
          /\ bestState # None
          /\ bestState \in Boards
          /\ bestAttacks = attacksOf[bestState]
          /\ bestAttacks \in 0 .. ((BoardSize * (BoardSize - 1)) \div 2)
          /\ bestAttacks # Sentinel

C10_Witness ==
    /\ pc = "done"
    /\ func = "first"
    /\ bestAttacks > 0
    /\ \E a, c \in Cols : a < c /\ bestState[a] = bestState[c]

C10_BestWitness ==
    /\ pc = "done"
    /\ func = "best"
    /\ restart = maxRestart
    /\ bestAttacks = 0

====
